---- MODULE Spec2Model ----
(***************************************************************************)
(* Testers Tracker: the data engine (app/data.py, class Data) and the      *)
(* window that drives it (app/main.py, class TestersTracker).              *)
(*                                                                         *)
(* Strings are TLA+ strings; a DataFrame is a sequence of rows; a yield    *)
(* percentage is held in hundredths (90.0 is 9000); a timestamp and a      *)
(* window length are whole hours.                                          *)
(***************************************************************************)
EXTENDS Integers, Sequences, FiniteSets, TLC

VARIABLES
    bins,           \* the DataFrame of disk-slot tokens handed to getDiskBins
    packs,          \* the DataFrame of records handed to the summaries
    files,          \* the files of the data directory (name, rows)
    now,            \* datetime.now(), in hours
    called,         \* the engine operation that ran last ("" before any ran)
    args,           \* the arguments it ran with, besides the frame above
    result,         \* what that operation returned or raised
    stack,          \* the call stack of the GUI thread: event loops and handlers
    ended,          \* "" while the process runs, else "exited" or "crashed"
    error,          \* TestersTracker.error
    export_path,    \* TestersTracker.export_path
    n_hours,        \* TestersTracker.n_hours
    button_export,  \* "none" before createWindow, else "enabled" or "disabled"
    button_submit,  \* likewise
    timer,          \* whether the refresh timer runs
    table_yield,    \* the yield table: its cells and the packs its buttons hold
    table_packs,    \* the rows of the packs table
    table_rcc,      \* the rows of the rcc table
    last,           \* the last getData invocation that ended, as the user saw it
    written         \* export files written since the export directory was picked

engineVars == <<bins, packs, files, now, called, args, result>>

appVars == <<stack, ended, error, export_path, n_hours, button_export, button_submit,
             timer, table_yield, table_packs, table_rcc, last, written>>

vars == <<engineVars, appVars>>

----------------------------------------------------------------------------
(* Bounds of the model *)

\* Data.n_heads is 48 in the source; the model keeps n_disks = n_heads \div 2
\* and scales the pack down.
n_heads == 4
MaxBinRows == 2
MaxPacks == 2
MaxFileRows == 1

MaxStack == 3

----------------------------------------------------------------------------
(* The engine run on its own: no window *)

NoWindow ==
    /\ stack = <<>>
    /\ ended = ""
    /\ error = "None"
    /\ export_path = "None"
    /\ n_hours = 120
    /\ button_export = "none"
    /\ button_submit = "none"
    /\ timer = FALSE
    /\ table_yield = [cells |-> <<>>, pack_data |-> <<>>]
    /\ table_packs = <<>>
    /\ table_rcc = <<>>
    /\ last = [kind |-> "", raised |-> "", messages |-> 0, updated |-> FALSE]
    /\ written = 0

----------------------------------------------------------------------------
(* Python string primitives *)

Digits == {"0", "1", "2", "3", "4", "5", "6", "7", "8", "9"}

\* s[i:i+1]
CharAt(s, i) == SubSeq(s, i, i)

\* s.startswith(p)
StartsWith(s, p) == Len(s) >= Len(p) /\ SubSeq(s, 1, Len(p)) = p

\* s.endswith(p)
EndsWith(s, p) == Len(s) >= Len(p) /\ SubSeq(s, Len(s) - Len(p) + 1, Len(s)) = p

\* s[-3:]
Last3(s) == IF Len(s) <= 3 THEN s ELSE SubSeq(s, Len(s) - 2, Len(s))

\* s.isdigit(): every character a digit, and at least one character
IsDigitStr(s) == Len(s) > 0 /\ \A i \in 1..Len(s) : CharAt(s, i) \in Digits

\* the number of TRUE entries of a boolean mask: len(df[mask])
RECURSIVE CountTrue(_)
CountTrue(mask) ==
    IF mask = <<>> THEN 0
    ELSE (IF Head(mask) THEN 1 ELSE 0) + CountTrue(Tail(mask))

----------------------------------------------------------------------------
(* Data: constants and getDiskBins *)

PASS_BIN_DISK_LEN == 6
PASS_BIN_DISK_MDWC == "C000"

n_disks == n_heads \div 2

\* Outcome tokens of a disk slot: one for each way the prefix, the length and
\* the suffix rules of getDiskBins can combine.
Tokens ==
    { "ABCDEF",     \* length 6
      "123456",     \* length 6, all digits
      "D12345",     \* length 6 and starts with D
      "C000XYZ",    \* C000 and a non-numeric suffix
      "C00012A",    \* C000 and a suffix that is not all digits
      "C000123",    \* C000 and a numeric suffix
      "C000",       \* the bare prefix: its last 3 characters are digits
      "D1",         \* starts with D, short
      "DETCR07",    \* starts with D, long
      "X" }         \* none of the rules

\* DataFrame.melt(value_name='bin'): the columns one after another
melt(df) ==
    IF df = <<>> THEN <<>>
    ELSE LET R == Len(df)
             C == Len(df[1])
         IN  [k \in 1..(R * C) |-> df[((k - 1) % R) + 1][((k - 1) \div R) + 1]]

bins_detcr(col) == [i \in DOMAIN col |-> StartsWith(col[i], "D")]

bins_pass(col) ==
    [i \in DOMAIN col |->
        \/ Len(col[i]) = PASS_BIN_DISK_LEN
        \/ (StartsWith(col[i], PASS_BIN_DISK_MDWC) /\ ~IsDigitStr(Last3(col[i])))]

bins_fail(col) == [i \in DOMAIN col |-> ~(bins_pass(col)[i] \/ bins_detcr(col)[i])]

\* (passed, failed, detcr)
getDiskBins(df) ==
    LET col == melt(df)
    IN  <<CountTrue(bins_pass(col)), CountTrue(bins_fail(col)), CountTrue(bins_detcr(col))>>

----------------------------------------------------------------------------
(* The classification the specification states: first match wins *)

Classify(token) ==
    IF Len(token) = 6 THEN "PASS"
    ELSE IF StartsWith(token, "C000") /\ ~IsDigitStr(Last3(token)) THEN "PASS"
    ELSE IF StartsWith(token, "D") THEN "DEFECT"
    ELSE "FAIL"

RECURSIVE CountClass(_, _)
CountClass(col, class) ==
    IF col = <<>> THEN 0
    ELSE (IF Classify(Head(col)) = class THEN 1 ELSE 0) + CountClass(Tail(col), class)

----------------------------------------------------------------------------
(* getDiskBins applied to every small DataFrame of tokens *)

BinRows == [1..n_disks -> Tokens]

\* the frames of at most max_rows rows
BinFrames(max_rows) == UNION {[1..r -> BinRows] : r \in 1..max_rows}

InitBins ==
    /\ bins \in BinFrames(MaxBinRows)
    /\ packs = <<>>
    /\ files = {}
    /\ now = 0
    /\ called = ""
    /\ args = <<>>
    /\ result = <<>>
    /\ NoWindow

DoGetDiskBins ==
    /\ called = ""
    /\ called' = "getDiskBins"
    /\ result' = getDiskBins(bins)
    /\ UNCHANGED <<bins, packs, files, now, args, appVars>>

NextBins == DoGetDiskBins

SpecBins == InitBins /\ [][NextBins]_vars

\* C1: getDiskBins counts a token as PASS iff its length is 6 or it starts
\* with "C000" and its last 3 characters are not all digits, otherwise as
\* DEFECT iff it starts with "D", otherwise as FAIL (first match wins).
C1_FirstMatchCounts ==
    called = "getDiskBins" =>
        result = << CountClass(melt(bins), "PASS"),
                    CountClass(melt(bins), "FAIL"),
                    CountClass(melt(bins), "DEFECT") >>

\* C2: the pass, fail and defect counts of getDiskBins sum to the number of
\* disk-slot tokens classified.
C2_PartitionComplete ==
    called = "getDiskBins" =>
        result[1] + result[2] + result[3] = Len(melt(bins))

----------------------------------------------------------------------------
(* Data.getYieldSummary *)

\* sub in s
Contains(s, sub) ==
    \E i \in 1..(Len(s) - Len(sub) + 1) : SubSeq(s, i, i + Len(sub) - 1) = sub

\* packs['tester'].unique(): the testers in order of first appearance
RECURSIVE unique(_)
unique(col) ==
    IF col = <<>> THEN <<>>
    ELSE LET init == unique(SubSeq(col, 1, Len(col) - 1))
             value == col[Len(col)]
         IN  IF \E i \in DOMAIN init : init[i] = value THEN init ELSE Append(init, value)

\* DataFrame.sort_values('tester'): pandas sorts with kind='quicksort', which is
\* not stable, so every ordering of the rows that is ascending in tester is an
\* outcome; rows of one tester may come out in any order.
sort_values(df) ==
    LET n == Len(df)
        perms == {p \in [1..n -> 1..n] :
                    /\ \A i, j \in 1..n : i # j => p[i] # p[j]
                    /\ \A i, j \in 1..n : i < j => df[p[i]].tester <= df[p[j]].tester}
    IN  {[i \in 1..n |-> df[p[i]]] : p \in perms}

\* round(num / den, 2) in hundredths. Python rounds the float correctly and
\* to even on an exact tie; a tie of num/den is a multiple of 1/8 and so an
\* exact float.
round2(num, den) ==
    LET q == (num * 100) \div den
        r == (num * 100) % den
    IN  IF 2 * r < den THEN q
        ELSE IF 2 * r > den THEN q + 1
        ELSE IF q % 2 = 0 THEN q ELSE q + 1

\* a yield over every disk, the detcr disks included
tester_yield_all(disks_pass, disks_fail, disks_detcr) ==
    round2(disks_pass * 100, disks_pass + disks_fail + disks_detcr)

\* round(disks_pass * 100 / (disks_pass + disks_fail), 2); the caller has
\* checked the divisor
tester_yield(disks_pass, disks_fail, disks_detcr) ==
    round2(disks_pass * 100, disks_pass + disks_fail)

\* int((disks_pass + disks_fail + disks_detcr) / 24)
n_packs(disks_pass, disks_fail, disks_detcr) ==
    (disks_pass + disks_fail + disks_detcr) \div 24

\* the body of the loop over testers, up to the division
tester_counts(df, tester) ==
    LET IsTester(row) == row.tester = tester
        tester_packs == SelectSeq(df, IsTester)
        tester_disks == [i \in DOMAIN tester_packs |-> tester_packs[i].disks]
    IN  [tester |-> tester,
         type   |-> IF Contains(tester_packs[1].profile, "mdsw") THEN "mdsw" ELSE "mdwc",
         bins   |-> getDiskBins(tester_disks)]

yield_summary(df, tester) ==
    LET c == tester_counts(df, tester)
    IN  [tester            |-> tester,
         type              |-> c.type,
         disk_pass         |-> c.bins[1],
         disk_fail         |-> c.bins[2],
         disks_fail_from_C |-> c.bins[3],
         pack              |-> n_packs(c.bins[1], c.bins[2], c.bins[3]),
         yield             |-> tester_yield(c.bins[1], c.bins[2], c.bins[3])]

\* yields.sort_values('tester') over the rows of the loop: the tables the
\* final sort may leave (one, as long as no two rows share a tester)
yield_tables(df) ==
    LET testers == unique([i \in DOMAIN df |-> df[i].tester])
    IN  sort_values([i \in DOMAIN testers |-> yield_summary(df, testers[i])])

\* The division raises ZeroDivisionError for a tester with no passed and no
\* failed disk; nothing catches it inside Data.
getYieldSummary(df) ==
    LET testers == unique([i \in DOMAIN df |-> df[i].tester])
        zero(t) == LET b == tester_counts(df, t).bins IN b[1] + b[2] = 0
    IN  IF \E i \in DOMAIN testers : zero(testers[i])
        THEN [raised |-> "ZeroDivisionError", value |-> <<>>]
        ELSE [raised |-> "", value |-> CHOOSE s \in yield_tables(df) : TRUE]

----------------------------------------------------------------------------
(* getYieldSummary applied to every small DataFrame of records *)

YieldTokens == {"ABCDEF", "D12345", "D1", "X"}

Profiles == {"st_mdsw_v2", "st_mdwc_v1"}

\* tester identifiers (integers in the tester column)
Testers == {2, 11}

YieldRecords ==
    [pack_num : {"P1"}, tester : Testers, profile : Profiles, rcc : {0},
     rcc_message : {"ok"}, date_time : {0}, disks : [1..n_disks -> YieldTokens]]

InitYield ==
    /\ packs \in UNION {[1..n -> YieldRecords] : n \in 1..MaxPacks}
    /\ bins = <<>>
    /\ files = {}
    /\ now = 0
    /\ called = ""
    /\ args = <<>>
    /\ result = <<>>
    /\ NoWindow

DoGetYieldSummary ==
    /\ called = ""
    /\ called' = "getYieldSummary"
    /\ result' = getYieldSummary(packs)
    /\ UNCHANGED <<bins, packs, files, now, args, appVars>>

NextYield == DoGetYieldSummary

SpecYield == InitYield /\ [][NextYield]_vars

\* the disk-slot tokens of one tester's records
TesterTokens(df, tester) ==
    LET IsTester(row) == row.tester = tester
        rows == SelectSeq(df, IsTester)
    IN  melt([i \in DOMAIN rows |-> rows[i].disks])

PassCount(df, tester) == CountClass(TesterTokens(df, tester), "PASS")
FailCount(df, tester) == CountClass(TesterTokens(df, tester), "FAIL")
DefectCount(df, tester) == CountClass(TesterTokens(df, tester), "DEFECT")

\* C3: when some tester has passCount + failCount = 0 the aggregation raises
\* no error: the tables are returned, with a placeholder in that tester's
\* yield cell.
C3_ZeroDivisorStillReturns ==
    (/\ called = "getYieldSummary"
     /\ \E i \in DOMAIN packs :
            PassCount(packs, packs[i].tester) + FailCount(packs, packs[i].tester) = 0)
    => result.raised = ""

\* C6: for every tester with passCount + failCount > 0 the reported yield is
\* 100 * passCount / (passCount + failCount) rounded to 2 decimal places, over
\* that tester's disk-slot tokens only, DEFECT tokens in neither numerator nor
\* denominator, and lies between 0 and 100; 18 PASS, 2 FAIL, 4 DEFECT give 90.0.
C6_YieldFormula ==
    /\ tester_yield(18, 2, 4) = 9000
    /\ (called = "getYieldSummary" /\ result.raised = "") =>
          \A k \in DOMAIN result.value :
             LET row == result.value[k]
                 p   == PassCount(packs, row.tester)
                 f   == FailCount(packs, row.tester)
             IN  /\ p + f > 0
                 /\ 2 * (row.yield * (p + f) - 10000 * p) <= p + f
                 /\ 2 * (10000 * p - row.yield * (p + f)) <= p + f
                 /\ row.yield >= 0
                 /\ row.yield <= 10000

\* C6 witness: a yield strictly between 0 and 100 was reported for a tester
\* that also has DEFECT tokens.
C6_Witness ==
    /\ called = "getYieldSummary"
    /\ result.raised = ""
    /\ \E k \in DOMAIN result.value :
          /\ result.value[k].yield > 0
          /\ result.value[k].yield < 10000
          /\ DefectCount(packs, result.value[k].tester) > 0

----------------------------------------------------------------------------
(* Data.getRccSummary *)

\* data[['tester', 'date_time', 'rcc', 'rcc_message']]
rcc_columns(row) ==
    [tester |-> row.tester, date_time |-> row.date_time, rcc |-> row.rcc,
     rcc_message |-> row.rcc_message]

\* The outcomes of getRccSummary: the rows with a non-zero rcc, projected, in
\* any of the orders sort_values('tester') may leave them in.
getRccSummary(data) ==
    LET HasRcc(row) == row.rcc # 0
        rcc         == SelectSeq(data, HasRcc)
        rcc_summary == [i \in DOMAIN rcc |-> rcc_columns(rcc[i])]
    IN  sort_values(rcc_summary)

----------------------------------------------------------------------------
(* getRccSummary applied to every small DataFrame of records *)

RccRecords ==
    [pack_num : {"P1"}, tester : Testers, profile : {"st_mdsw_v2"}, rcc : {0, 3, 7},
     rcc_message : {"msg"}, date_time : 0..2, disks : {[i \in 1..n_disks |-> "ABCDEF"]}]

InitRcc ==
    /\ packs \in UNION {[1..n -> RccRecords] : n \in 1..MaxPacks}
    /\ bins = <<>>
    /\ files = {}
    /\ now = 0
    /\ called = ""
    /\ args = <<>>
    /\ result = <<>>
    /\ NoWindow

DoGetRccSummary ==
    /\ called = ""
    /\ called' = "getRccSummary"
    /\ \E rcc_summary \in getRccSummary(packs) : result' = rcc_summary
    /\ UNCHANGED <<bins, packs, files, now, args, appVars>>

NextRcc == DoGetRccSummary

SpecRcc == InitRcc /\ [][NextRcc]_vars

\* the elements of a finite set of integers, ascending
RECURSIVE Ascending(_)
Ascending(S) ==
    IF S = {} THEN <<>>
    ELSE LET least == CHOOSE x \in S : \A y \in S : x <= y
         IN  <<least>> \o Ascending(S \ {least})

\* the events of the records: tester by tester ascending, each tester's
\* events in the order the records have them
RECURSIVE EventsOf(_, _)
EventsOf(data, testers) ==
    IF testers = <<>> THEN <<>>
    ELSE LET IsEvent(row) == row.rcc # 0 /\ row.tester = Head(testers)
             mine == SelectSeq(data, IsEvent)
         IN  [i \in DOMAIN mine |-> rcc_columns(mine[i])] \o EventsOf(data, Tail(testers))

\* C7: getRccSummary returns exactly the records with a non-zero rcc, as
\* (tester, timestamp, rcc, rcc_message), ordered by tester ascending, the
\* events of one tester in the order the input has them; with no non-zero
\* rcc the result is empty.
C7_StableByTester ==
    called = "getRccSummary" => result = EventsOf(packs, Ascending(Testers))

----------------------------------------------------------------------------
(* Data.getPacksData *)

\* s.lstrip(chars): leading characters that occur in chars are removed
RECURSIVE lstrip(_, _)
lstrip(s, chars) ==
    IF Len(s) > 0 /\ \E i \in 1..Len(chars) : CharAt(chars, i) = CharAt(s, 1)
    THEN lstrip(SubSeq(s, 2, Len(s)), chars)
    ELSE s

\* s.rstrip(chars)
RECURSIVE rstrip(_, _)
rstrip(s, chars) ==
    IF Len(s) > 0 /\ \E i \in 1..Len(chars) : CharAt(chars, i) = CharAt(s, Len(s))
    THEN rstrip(SubSeq(s, 1, Len(s) - 1), chars)
    ELSE s

\* s.strip(chars): chars is a set of characters, not a suffix
strip(s, chars) == rstrip(lstrip(s, chars), chars)

\* row.astype(str).values: the fields of a row of the csv as strings. The date
\* and the time of a row are held as one number of hours; as text they are a
\* date and a time of day, which no file name of the model is.
row_values(row) ==
    {row.pack_num, ToString(row.tester), row.profile, ToString(row.rcc), row.rcc_message}
        \cup {row.disks[i] : i \in DOMAIN row.disks}

\* [fn for fn in os.listdir(path_data) if fn.endswith('csv')], in the order
\* of the listing
csv_files(listing) ==
    LET IsCsv(file) == EndsWith(file.name, "csv")
    IN  SelectSeq(listing, IsCsv)

\* df_csv.apply(lambda row: filename in row.astype(str).values, axis=1).any()
has_pack_number(file) ==
    LET filename == strip(file.name, ".csv")
    IN  \E i \in DOMAIN file.rows : filename \in row_values(file.rows[i])

\* the files whose rows are concatenated
accepted_files(listing) == SelectSeq(csv_files(listing), has_pack_number)

RECURSIVE concat(_)
concat(fs) == IF fs = <<>> THEN <<>> ELSE Head(fs).rows \o concat(Tail(fs))

\* len(self.pack_header): 21 scalar fields, the disks and the heads
pack_header_len == 21 + n_disks + n_heads

\* the number of columns of pd.concat of the accepted frames: the union of
\* their integer column labels
frame_width(fs) ==
    CHOOSE w \in {fs[i].columns : i \in DOMAIN fs} : \A i \in DOMAIN fs : fs[i].columns <= w

\* a variant that also raises when the window leaves no row
getPacksData_raiseOnEmptyWindow(listing, hours, t_now) ==
    LET accepted == accepted_files(listing)
        all      == concat(accepted)
        InWindow(row) == row.date_time >= t_now - hours
    IN  IF SelectSeq(all, InWindow) # <<>>
        THEN [raised |-> "", value |-> SelectSeq(all, InWindow),
              accepted |-> [i \in DOMAIN accepted |-> accepted[i].name]]
        ELSE [raised |-> "DataError", value |-> <<>>,
              accepted |-> [i \in DOMAIN accepted |-> accepted[i].name]]

\* a variant whose window leaves out the row stamped exactly at its start
getPacksData_strictWindow(listing, hours, t_now) ==
    LET accepted == accepted_files(listing)
        all      == concat(accepted)
        InWindow(row) == row.date_time > t_now - hours
    IN  IF all # <<>>
        THEN [raised |-> "", value |-> SelectSeq(all, InWindow),
              accepted |-> [i \in DOMAIN accepted |-> accepted[i].name]]
        ELSE [raised |-> "DataError", value |-> <<>>,
              accepted |-> [i \in DOMAIN accepted |-> accepted[i].name]]

\* listing is os.listdir(path_data) with each file's rows; t_now is
\* datetime.now(). Besides the frame, the result names the accepted files.
\* Assigning pack_header to a frame of another width raises ValueError.
getPacksData(listing, hours, t_now) ==
    LET accepted == accepted_files(listing)
        all      == concat(accepted)
        filter_date == t_now - hours
        InWindow(row) == row.date_time >= filter_date
    IN  IF all # <<>>
        THEN IF frame_width(accepted) # pack_header_len
             THEN [raised |-> "ValueError", value |-> <<>>,
                   accepted |-> [i \in DOMAIN accepted |-> accepted[i].name]]
             ELSE [raised |-> "", value |-> SelectSeq(all, InWindow),
                   accepted |-> [i \in DOMAIN accepted |-> accepted[i].name]]
        ELSE [raised |-> "DataError", value |-> <<>>,
              accepted |-> [i \in DOMAIN accepted |-> accepted[i].name]]

\* os.listdir: the files of the directory in arbitrary order
listdir(dir) ==
    LET n == Cardinality(dir)
    IN  {l \in [1..n -> dir] : \A i, j \in 1..n : i # j => l[i] # l[j]}

----------------------------------------------------------------------------
(* getPacksData applied to every small directory *)

FileNames == {"P1.csv", "s1.csv", "P1.txt"}

LoadRecords ==
    [pack_num : {"P1", "s1", "1"}, tester : {2}, profile : {"st_mdsw_v2"}, rcc : {0},
     rcc_message : {"ok"}, date_time : {0, 5}, disks : {[i \in 1..n_disks |-> "ABCDEF"]}]

\* a csv file holds at least one row
FileContents(max_rows) == UNION {[1..n -> LoadRecords] : n \in 1..max_rows}

\* the directory whose files are named in names, with the rows c gives each
Directory(names, c) ==
    {[name |-> nm, rows |-> c[nm], columns |-> pack_header_len] : nm \in names}

\* with now = 10 the windows start at hours 8, 5 and -2; 5 is also a timestamp
WindowHours == {2, 5, 12}

InitLoad ==
    /\ \E names \in SUBSET FileNames :
          \E c \in [names -> FileContents(MaxFileRows)] : files = Directory(names, c)
    /\ now = 10
    /\ bins = <<>>
    /\ packs = <<>>
    /\ called = ""
    /\ args = <<>>
    /\ result = <<>>
    /\ NoWindow

DoGetPacksData ==
    /\ called = ""
    /\ called' = "getPacksData"
    /\ \E hours \in WindowHours, listing \in listdir(files) :
          /\ args' = [n_hours |-> hours]
          /\ result' = getPacksData(listing, hours, now)
    /\ UNCHANGED <<bins, packs, files, now, appVars>>

NextLoad == DoGetPacksData

SpecLoad == InitLoad /\ [][NextLoad]_vars

\* the file name with the extension removed and nothing else changed
Stem(name) == IF EndsWith(name, ".csv") THEN SubSeq(name, 1, Len(name) - 4) ELSE name

StemAppears(file) == \E i \in DOMAIN file.rows : Stem(file.name) \in row_values(file.rows[i])

FileNamed(name) == CHOOSE file \in files : file.name = name

\* the rows of the accepted files that lie in the window
RowsInWindow ==
    {row \in UNION {{FileNamed(result.accepted[i]).rows[k] :
                        k \in DOMAIN FileNamed(result.accepted[i]).rows} :
                    i \in DOMAIN result.accepted} :
        row.date_time >= now - args.n_hours}

C10_AcceptedOnlyIfStemAppears ==
    called = "getPacksData" =>
        \A i \in DOMAIN result.accepted : StemAppears(FileNamed(result.accepted[i]))

\* the rows of a frame, as a set
RowSet(df) == {df[i] : i \in DOMAIN df}

\* the rows of the accepted files, whatever their timestamp
AcceptedRows ==
    UNION {{FileNamed(result.accepted[i]).rows[k] :
               k \in DOMAIN FileNamed(result.accepted[i]).rows} :
           i \in DOMAIN result.accepted}

\* C11: for the same files and the same now, a record of the accepted files
\* is returned iff its timestamp is >= now - windowHours, and every record
\* returned for a window is returned for every longer window.
C11_WindowMonotone ==
    (called = "getPacksData" /\ result.raised = "") =>
        /\ \A row \in AcceptedRows :
              (row \in RowSet(result.value)) = (row.date_time >= now - args.n_hours)
        /\ RowSet(result.value) \subseteq AcceptedRows
        /\ \A w2 \in WindowHours, listing \in listdir(files) :
              w2 > args.n_hours =>
                 LET longer == getPacksData(listing, w2, now)
                 IN  /\ longer.raised = ""
                     /\ RowSet(result.value) \subseteq RowSet(longer.value)

\* C11 witness: a window returned a row stamped exactly at its start and
\* left another out, which a longer window returns.
C11_Witness ==
    /\ called = "getPacksData"
    /\ result.raised = ""
    /\ \E row \in RowSet(result.value) : row.date_time = now - args.n_hours
    /\ \E w2 \in WindowHours, listing \in listdir(files) :
          /\ w2 > args.n_hours
          /\ RowSet(getPacksData(listing, w2, now).value) # RowSet(result.value)

\* the tester identifiers present in a frame of records
TestersOf(df) == {df[i].tester : i \in DOMAIN df}

\* the table has one row per tester of the records, ascending in tester, and
\* it is the only table the records can give
OneRowPerTester ==
    /\ [k \in DOMAIN result.value |-> result.value[k].tester] = Ascending(TestersOf(packs))
    /\ yield_tables(packs) = {result.value}

\* C12: getYieldSummary returns exactly one row per distinct tester present
\* in the records, ordered by tester ascending, and running it again on the
\* same records gives the same table.
C12_OneRowPerTester ==
    called = "getYieldSummary" => (result.raised = "" /\ OneRowPerTester)

\* What is left of C12 when no tester has passCount + failCount = 0: the
\* table that is returned has the rows, the order and the determinism.
C12_Returned ==
    (called = "getYieldSummary" /\ result.raised = "") => OneRowPerTester

----------------------------------------------------------------------------
(* Data.getBinCount, Data.exportData and Data.getData *)

None == "None"

\* the truth value of an Optional[str]: None and '' are false
truthy(x) == x # None /\ x # ""

\* the pass criterion of getBinCount for string bins
is_pass_bin(bin) ==
    \/ Len(bin) = PASS_BIN_DISK_LEN
    \/ (StartsWith(bin, PASS_BIN_DISK_MDWC) /\ ~IsDigitStr(Last3(bin)))

\* getBinCount(bins, include_pass_bin=False): each bin that is not a pass bin
\* with its count; the order of value_counts is left out
getBinCount(df) ==
    LET bins_1d == melt(df)
        count(bin) == Cardinality({i \in DOMAIN bins_1d : bins_1d[i] = bin})
    IN  {[bin |-> bins_1d[i], count |-> count(bins_1d[i])] :
            i \in {j \in DOMAIN bins_1d : ~is_pass_bin(bins_1d[j])}}

\* the columns of filtered_pack_data that the model holds
filtered_columns(row) ==
    [pack_num |-> row.pack_num, tester |-> row.tester, date_time |-> row.date_time,
     rcc |-> row.rcc, rcc_message |-> row.rcc_message, disks |-> row.disks]

\* yield_summary[['tester', 'type', 'yield %']] with the tester as 'T<n>'
yield_data(yields) ==
    [i \in DOMAIN yields |->
        [tester |-> "T" \o ToString(yields[i].tester), type |-> yields[i].type,
         yield  |-> yields[i].yield]]

Raised(err) ==
    [raised |-> err, exported |-> FALSE, packs |-> <<>>, yield |-> <<>>, rcc |-> <<>>]

\* The outcomes of getData. writable says whether pd.ExcelWriter can write
\* into the export directory; when it cannot, exportData raises OSError, which
\* getData does not catch, so the tables computed before it are not returned.
getData(listing, path, hours, t_now, writable) ==
    LET loaded == getPacksData(listing, hours, t_now)
        data   == loaded.value
        yields == getYieldSummary(data)
        disk_bins == getBinCount([i \in DOMAIN data |-> data[i].disks])
    IN  IF loaded.raised # "" THEN {Raised(loaded.raised)}
        ELSE IF yields.raised # "" THEN {Raised(yields.raised)}
        ELSE IF truthy(path) /\ ~writable THEN {Raised("OSError")}
        ELSE {[raised   |-> "",
               exported |-> truthy(path),
               packs    |-> [i \in DOMAIN data |-> filtered_columns(data[i])],
               yield    |-> yield_data(yields.value),
               rcc      |-> rcc_summary] : rcc_summary \in getRccSummary(data)}

----------------------------------------------------------------------------
(* TestersTracker: the window, its timer and its buttons *)

DigitValue(c) == CHOOSE d \in 0..9 : ToString(d) = c

\* int(text) for a text of digits
RECURSIVE int_of(_)
int_of(text) ==
    IF Len(text) = 0 THEN 0
    ELSE 10 * int_of(SubSeq(text, 1, Len(text) - 1)) + DigitValue(CharAt(text, Len(text)))

\* float(hours_text_field.text()): hours are whole numbers in the model; a
\* text that is no number raises ValueError
float_text(text) ==
    IF IsDigitStr(text) THEN [raised |-> "", value |-> int_of(text)]
    ELSE [raised |-> "ValueError", value |-> 0]

\* data.sort_values('date_time', ascending=False): any order that descends
sort_values_date_desc(df) ==
    LET n == Len(df)
        perms == {p \in [1..n -> 1..n] :
                    /\ \A i, j \in 1..n : i # j => p[i] # p[j]
                    /\ \A i, j \in 1..n : i < j => df[p[i]].date_time >= df[p[j]].date_time}
    IN  {[i \in 1..n |-> df[p[i]]] : p \in perms}

\* the rows updatePackData may put into the packs table; tester 0 stands for
\* None (`if tester:` is false for both)
updatePackData(data, tester) ==
    LET IsTester(row) == row.tester = tester
    IN  sort_values_date_desc(IF tester # 0 THEN SelectSeq(data, IsTester) ELSE data)

\* the yield table: the cells, and pack_data, from which each yield button
\* keeps its tester's packs
updateYieldTable(data, pack_data) == [cells |-> data, pack_data |-> pack_data]

updateRccTable(data) == data

\* a handler starts whenever one is due, even inside a running handler
in_event_loop_always(frame) == TRUE

\* The frames in which the GUI thread runs an event loop and so dispatches
\* timer events: app.exec_(), QMessageBox.information and the QFileDialog.
in_event_loop(frame) ==
    frame \in {"exec", "refresh:msgbox", "getDataExportPath:dialog"}

\* a modal dialog keeps clicks from the window's buttons
accepts_input(frame) == frame = "exec"

Top == stack[Len(stack)]

Pop == SubSeq(stack, 1, Len(stack) - 1)

Running == ended = "" /\ stack # <<>>

InGetData(frame) ==
    frame \in {"__init__:getData", "refresh:getData", "updateData:getData"}

\* the getData invocations that have started and neither returned nor raised
InFlight == Cardinality({i \in DOMAIN stack : InGetData(stack[i])})

\* what self.data.getData(data_path, export_path, n_hours) may do now
GetDataNow ==
    UNION {getData(listing, export_path, n_hours, now, writable) :
              listing \in listdir(files), writable \in BOOLEAN}

Written(out) == IF out.exported THEN written + 1 ELSE written

\* the process is gone: QApplication.exit() after the message, or the abort
\* of PyQt5 on an exception that leaves a slot
Gone(how) ==
    /\ ended' = how
    /\ stack' = <<>>
    /\ timer' = FALSE

----------------------------------------------------------------------------
(* The directories and the user input of the window model *)

GoodFile ==
    [name |-> "P1.csv", columns |-> pack_header_len,
     rows |-> << [pack_num |-> "P1", tester |-> 2, profile |-> "st_mdsw_v2", rcc |-> 0,
                  rcc_message |-> "ok", date_time |-> 8,
                  disks |-> [i \in 1..n_disks |-> IF i = 1 THEN "ABCDEF" ELSE "X"]],
                 [pack_num |-> "P1", tester |-> 11, profile |-> "st_mdwc_v1", rcc |-> 3,
                  rcc_message |-> "E3", date_time |-> 5,
                  disks |-> [i \in 1..n_disks |-> IF i = 1 THEN "ABCDEF" ELSE "D1"]] >>]

\* a tester without a passed or failed disk
DefectFile ==
    [name |-> "P2.csv", columns |-> pack_header_len,
     rows |-> << [pack_num |-> "P2", tester |-> 2, profile |-> "st_mdsw_v2", rcc |-> 0,
                  rcc_message |-> "ok", date_time |-> 9,
                  disks |-> [i \in 1..n_disks |-> "D1"]] >>]

\* a file with a column too many
WideFile ==
    [name |-> "P3.csv", columns |-> pack_header_len + 1,
     rows |-> << [pack_num |-> "P3", tester |-> 11, profile |-> "st_mdwc_v1", rcc |-> 0,
                  rcc_message |-> "ok", date_time |-> 9,
                  disks |-> [i \in 1..n_disks |-> "ABCDEF"]] >>]

AppDirectories == SUBSET {GoodFile, DefectFile, WideFile}

HourTexts == {"1", "4", "x"}

ExportPaths == {"", "C:/out"}

----------------------------------------------------------------------------
(* The window as a state machine *)

InitApp ==
    /\ files \in AppDirectories
    /\ now = 10
    /\ bins = <<>>
    /\ packs = <<>>
    /\ called = ""
    /\ args = <<>>
    /\ result = <<>>
    /\ stack = <<"__init__:getData">>
    /\ ended = ""
    /\ error = None
    /\ export_path = None
    /\ n_hours = 120
    /\ button_export = "none"
    /\ button_submit = "none"
    /\ timer = FALSE
    /\ table_yield = [cells |-> <<>>, pack_data |-> <<>>]
    /\ table_packs = <<>>
    /\ table_rcc = <<>>
    /\ last = [kind |-> "", raised |-> "", messages |-> 0, updated |-> FALSE]
    /\ written = 0

\* __init__ from its getData call on; when it succeeds, runWindow starts the
\* timer and the application enters app.exec_()
InitGetData ==
    /\ ended = ""
    /\ stack = <<"__init__:getData">>
    /\ \E out \in GetDataNow :
          IF out.raised # ""
          THEN /\ error' = out.raised
               /\ stack' = <<"__init__:msgbox">>
               /\ last' = [kind |-> "__init__", raised |-> out.raised, messages |-> 1,
                           updated |-> FALSE]
               /\ UNCHANGED <<ended, export_path, n_hours, button_export, button_submit,
                              timer, table_yield, table_packs, table_rcc, written>>
          ELSE /\ \E shown \in updatePackData(out.packs, 2) : table_packs' = shown
               /\ table_yield' = updateYieldTable(out.yield, out.packs)
               /\ table_rcc' = updateRccTable(out.rcc)
               /\ button_export' = "enabled"
               /\ button_submit' = "enabled"
               /\ timer' = TRUE
               /\ stack' = <<"exec">>
               /\ written' = Written(out)
               /\ last' = [kind |-> "__init__", raised |-> "", messages |-> 0,
                           updated |-> TRUE]
               /\ UNCHANGED <<ended, error, export_path, n_hours>>
    /\ UNCHANGED engineVars

\* the message of __init__ is closed: runWindow returns the error and the
\* process ends without a window
InitMsgDismiss ==
    /\ ended = ""
    /\ stack = <<"__init__:msgbox">>
    /\ Gone("exited")
    /\ UNCHANGED <<engineVars, error, export_path, n_hours, button_export, button_submit,
                   table_yield, table_packs, table_rcc, last, written>>

\* the timer fires and refresh runs up to its getData call
RefreshBegin ==
    /\ Running
    /\ timer
    /\ in_event_loop(Top)
    /\ Len(stack) < MaxStack
    /\ button_export' = "enabled"
    /\ stack' = Append(stack, "refresh:getData")
    /\ UNCHANGED <<engineVars, ended, error, export_path, n_hours, button_submit, timer,
                   table_yield, table_packs, table_rcc, last, written>>

\* refresh from the return of getData on
RefreshGetData ==
    /\ Running
    /\ Top = "refresh:getData"
    /\ \E out \in GetDataNow :
          IF out.raised # ""
          THEN /\ error' = out.raised
               /\ stack' = Append(Pop, "refresh:msgbox")
               /\ last' = [kind |-> "refresh", raised |-> out.raised, messages |-> 1,
                           updated |-> FALSE]
               /\ UNCHANGED <<export_path, button_submit, table_yield, table_rcc, written>>
          ELSE /\ table_yield' = updateYieldTable(out.yield, out.packs)
               /\ table_rcc' = updateRccTable(out.rcc)
               /\ export_path' = None
               /\ button_submit' = "enabled"
               /\ stack' = Pop
               /\ written' = Written(out)
               /\ last' = [kind |-> "refresh", raised |-> "", messages |-> 0,
                           updated |-> TRUE]
               /\ UNCHANGED error
    /\ UNCHANGED <<engineVars, ended, n_hours, button_export, timer, table_packs>>

\* the message of refresh is closed and QApplication.exit() ends every event
\* loop of the thread
RefreshMsgDismiss ==
    /\ Running
    /\ Top = "refresh:msgbox"
    /\ Gone("exited")
    /\ UNCHANGED <<engineVars, error, export_path, n_hours, button_export, button_submit,
                   table_yield, table_packs, table_rcc, last, written>>

\* Submit is clicked and updateData runs up to its getData call; nothing
\* catches the ValueError of float()
UpdateDataBegin ==
    /\ Running
    /\ accepts_input(Top)
    /\ button_submit = "enabled"
    /\ \E text \in HourTexts :
          IF float_text(text).raised # ""
          THEN /\ Gone("crashed")
               /\ UNCHANGED n_hours
          ELSE /\ n_hours' = float_text(text).value
               /\ stack' = Append(stack, "updateData:getData")
               /\ UNCHANGED <<ended, timer>>
    /\ UNCHANGED <<engineVars, error, export_path, button_export, button_submit,
                   table_yield, table_packs, table_rcc, last, written>>

\* updateData from the return of getData on; an exception of getData leaves
\* the slot uncaught: no message, and PyQt5 aborts the process
UpdateDataGetData ==
    /\ Running
    /\ Top = "updateData:getData"
    /\ \E out \in GetDataNow :
          IF out.raised # ""
          THEN /\ Gone("crashed")
               /\ last' = [kind |-> "updateData", raised |-> out.raised, messages |-> 0,
                           updated |-> FALSE]
               /\ UNCHANGED <<button_submit, table_yield, table_packs, table_rcc, written>>
          ELSE /\ table_yield' = updateYieldTable(out.yield, out.packs)
               /\ \E shown \in updatePackData(out.packs, 0) : table_packs' = shown
               /\ table_rcc' = updateRccTable(out.rcc)
               /\ button_submit' = "disabled"
               /\ stack' = Pop
               /\ written' = Written(out)
               /\ last' = [kind |-> "updateData", raised |-> "", messages |-> 0,
                           updated |-> TRUE]
               /\ UNCHANGED <<ended, timer>>
    /\ UNCHANGED <<engineVars, error, export_path, n_hours, button_export>>

\* 'Export Data File' is clicked: getDataExportPath opens the folder dialog
ExportClick ==
    /\ Running
    /\ accepts_input(Top)
    /\ button_export = "enabled"
    /\ stack' = Append(stack, "getDataExportPath:dialog")
    /\ UNCHANGED <<engineVars, ended, error, export_path, n_hours, button_export,
                   button_submit, timer, table_yield, table_packs, table_rcc, last, written>>

\* the dialog returns the folder, or '' when it is cancelled
ExportDialogDone ==
    /\ Running
    /\ Top = "getDataExportPath:dialog"
    /\ \E path \in ExportPaths :
          /\ export_path' = path
          /\ button_export' = IF truthy(path) THEN "disabled" ELSE button_export
          /\ written' = IF truthy(path) THEN 0 ELSE written
    /\ stack' = Pop
    /\ UNCHANGED <<engineVars, ended, error, n_hours, button_submit, timer, table_yield,
                   table_packs, table_rcc, last>>

\* a yield button is clicked: updatePackData with the packs the button holds
YieldCellClick ==
    /\ Running
    /\ accepts_input(Top)
    /\ \E k \in DOMAIN table_yield.cells :
          LET tester   == table_yield.cells[k].tester
              cell_num == int_of(SubSeq(tester, 2, Len(tester)))
              IsCell(row) == row.tester = cell_num
              tester_packs == SelectSeq(table_yield.pack_data, IsCell)
          IN  \E shown \in updatePackData(tester_packs, cell_num) : table_packs' = shown
    /\ UNCHANGED <<engineVars, stack, ended, error, export_path, n_hours, button_export,
                   button_submit, timer, table_yield, table_rcc, last, written>>

\* result files come and go in the data directory
DirectoryChanges ==
    /\ Running
    /\ \E dir \in AppDirectories : dir # files /\ files' = dir
    /\ UNCHANGED <<bins, packs, now, called, args, result, appVars>>

NextApp ==
    \/ InitGetData
    \/ InitMsgDismiss
    \/ RefreshBegin
    \/ RefreshGetData
    \/ RefreshMsgDismiss
    \/ UpdateDataBegin
    \/ UpdateDataGetData
    \/ ExportClick
    \/ ExportDialogDone
    \/ YieldCellClick
    \/ DirectoryChanges

SpecApp == InitApp /\ [][NextApp]_vars

\* C5: when writing the export file fails during a getData invocation, the
\* failure is reported and the tables computed by that invocation are still
\* returned and displayed.
C5_ExportFailureKeepsTables ==
    last.raised = "OSError" => (last.messages = 1 /\ last.updated)

\* C8: in the constructor, in refresh and in updateData alike, when getData
\* fails with an ingestion or schema error no displayed table is updated from
\* the invocation and exactly one error message is shown to the user.
C8_FailureAbortsWithOneMessage ==
    last.raised \in {"DataError", "ValueError"} =>
        (~last.updated /\ last.messages = 1)

\* C9: at most one getData invocation is in flight at any time, whatever the
\* interleaving of timer refreshes and Submit clicks.
C9_OneInFlight == InFlight <= 1

\* C9 witness: the getData of a refresh runs while an earlier refresh has not
\* returned (its message is still open), and it is the only one in flight.
C9_Witness ==
    /\ Running
    /\ Top = "refresh:getData"
    /\ \E i \in DOMAIN stack : stack[i] = "refresh:msgbox"
    /\ InFlight = 1

\* C13: each selection of an export directory causes exactly one export
\* file: the first getData invocation after it writes the export and the
\* stored export path is then cleared, so no later invocation writes one
\* until a directory is selected again.
C13_OneExportPerSelection ==
    /\ written <= 1
    /\ written = 1 => ~truthy(export_path)

====
